---- MODULE Spec2Model ----
(***************************************************************************)
(* State-machine model of the Dooray meeting-room bot (src/api/index.py).  *)
(*                                                                         *)
(* Representation of Python values                                         *)
(*   - a str is a sequence of tokens.  A token is one character of the     *)
(*     source string (a Hangul syllable is written in ASCII romanisation:  *)
(*     "cheung" is the one character of "floor"); a literal fragment of    *)
(*     the source that no operation looks inside (a message text, the      *)
(*     scaffolding of a mention) is kept as one token.  The blank is the   *)
(*     token " ".  Concatenation, split, join and strip are the sequence   *)
(*     operations; comparison is lexicographic on the rank of characters;  *)
(*   - None is the one-token sequence None, which no str of the model      *)
(*     contains; an Optional[int] is <<>> (None) or <<n>>;                 *)
(*   - a dict is a function on the set of its keys; the status dict, whose *)
(*     insertion order is observable, is a sequence of [k, v] pairs;       *)
(*   - a list is a sequence.                                               *)
(*                                                                         *)
(* The variables arg and ret hold the argument and the result of a         *)
(* function of the source that a specification applies on its own; the     *)
(* specifications of the handlers leave them alone.                        *)
(***************************************************************************)
EXTENDS Naturals, Sequences, FiniteSets, TLC

VARIABLES resv, _state, card, now, resp, pc, loc, _state_lock, _db_lock, arg, ret

vars == <<resv, _state, card, now, resp, pc, loc, _state_lock, _db_lock, arg, ret>>

(***************************************************************************)
(* Bounds of the model.                                                    *)
(***************************************************************************)
\* largest number of records the reservation file holds
MaxResv == 2
\* the clock runs over the seconds 0..MaxNow
MaxNow == 3
\* seconds of one calendar day of the model's clock
DayLen == 2

Users == {<<"u1">>, <<"u2">>}
Convs == {<<"c1">>}
Tenant == <<"tenant">>
Workers == {1, 2}

(***************************************************************************)
(* Python values.                                                          *)
(***************************************************************************)
None == <<"<None>">>
Blank == " "

\* truth value of an Optional[str]
Falsy(s) == s = None \/ s = <<>>

\* d.get(k) of a dict d
Get(d, k) == IF k \in DOMAIN d THEN d[k] ELSE None

\* rank of a character in code-point order: blank, digits, colon, Latin
\* capitals, then the Hangul syllables of the room names
Rank(c) ==
    CASE c = " " -> 0
      [] c = "0" -> 1 [] c = "1" -> 2 [] c = "2" -> 3 [] c = "3" -> 4
      [] c = "4" -> 5 [] c = "5" -> 6 [] c = "6" -> 7 [] c = "7" -> 8
      [] c = "8" -> 9 [] c = "9" -> 10 [] c = ":" -> 11
      [] c = "A" -> 12 [] c = "B" -> 13 [] c = "R" -> 14
      [] c = "na" -> 15 [] c = "dae" -> 16 [] c = "ra" -> 17 [] c = "rum" -> 18
      [] c = "mi" -> 19 [] c = "se" -> 20 [] c = "so" -> 21 [] c = "sil" -> 22
      [] c = "un" -> 23 [] c = "ui" -> 24 [] c = "ji" -> 25
      [] c = "cheung" -> 26 [] c = "hoe" -> 27

\* Python str comparison a <= b
RECURSIVE StrLE(_, _)
StrLE(a, b) ==
    IF a = <<>> THEN TRUE
    ELSE IF b = <<>> THEN FALSE
    ELSE IF Rank(Head(a)) < Rank(Head(b)) THEN TRUE
    ELSE IF Rank(Head(a)) > Rank(Head(b)) THEN FALSE
    ELSE StrLE(Tail(a), Tail(b))

\* str.strip()
RECURSIVE LStrip(_)
LStrip(t) == IF t # <<>> /\ Head(t) = Blank THEN LStrip(Tail(t)) ELSE t

RECURSIVE RStrip(_)
RStrip(t) ==
    IF t # <<>> /\ t[Len(t)] = Blank THEN RStrip(SubSeq(t, 1, Len(t) - 1)) ELSE t

Strip(t) == RStrip(LStrip(t))

\* str.split(" "): the pieces between single blanks, empty pieces included
RECURSIVE SplitAcc(_, _)
SplitAcc(t, cur) ==
    IF t = <<>> THEN <<cur>>
    ELSE IF Head(t) = Blank THEN <<cur>> \o SplitAcc(Tail(t), <<>>)
    ELSE SplitAcc(Tail(t), Append(cur, Head(t)))

Split(t) == SplitAcc(t, <<>>)

\* " ".join(l)
RECURSIVE Join(_)
Join(l) ==
    IF l = <<>> THEN <<>>
    ELSE IF Len(l) = 1 THEN l[1]
    ELSE l[1] \o <<Blank>> \o Join(Tail(l))

NonEmpty(x) == x # <<>>

(***************************************************************************)
(* Room directory (the sample rooms written at start-up).                  *)
(***************************************************************************)
sample_rooms ==
    << [id |-> <<"R", "3", "0", "1">>, floor |-> 3, capacity |-> 12,
        name |-> <<"3", "cheung", " ", "dae", "hoe", "ui", "sil">>],
       [id |-> <<"R", "3", "0", "2">>, floor |-> 3, capacity |-> 6,
        name |-> <<"3", "cheung", " ", "so", "hoe", "ui", "sil", " ", "A">>],
       [id |-> <<"R", "3", "0", "3">>, floor |-> 3, capacity |-> 6,
        name |-> <<"3", "cheung", " ", "so", "hoe", "ui", "sil", " ", "B">>],
       [id |-> <<"R", "4", "0", "1">>, floor |-> 4, capacity |-> 8,
        name |-> <<"4", "cheung", " ", "ra", "un", "ji", "rum">>],
       [id |-> <<"R", "4", "0", "2">>, floor |-> 4, capacity |-> 20,
        name |-> <<"4", "cheung", " ", "se", "mi", "na", "rum">>] >>

load_rooms == sample_rooms

\* rooms.get(room_id, {}).get("name", room_id) with rooms = {r["id"]: r ...}
RoomName(room_id) ==
    IF \E i \in 1..Len(load_rooms) : load_rooms[i].id = room_id
    THEN LET i == CHOOSE j \in 1..Len(load_rooms) :
                     /\ load_rooms[j].id = room_id
                     /\ \A k \in (j + 1)..Len(load_rooms) : load_rooms[k].id # room_id
         IN load_rooms[i].name
    ELSE room_id

(***************************************************************************)
(* Clock: datetime.now().                                                  *)
(***************************************************************************)
\* datetime.now().strftime("%Y-%m-%d")
Today(t) == t \div DayLen

\* int(datetime.now().timestamp())
Timestamp(t) == t

\* strftime("%H:%M") of the time of day m minutes after midnight
HHMM(m) ==
    LET d(n) == CASE n = 0 -> "0" [] n = 1 -> "1" [] n = 2 -> "2" [] n = 3 -> "3"
                  [] n = 4 -> "4" [] n = 5 -> "5" [] n = 6 -> "6" [] n = 7 -> "7"
                  [] n = 8 -> "8" [] n = 9 -> "9"
    IN << d((m \div 60) \div 10), d((m \div 60) % 10), ":",
          d((m % 60) \div 10), d((m % 60) % 10) >>

(***************************************************************************)
(* Dooray helpers.                                                         *)
(***************************************************************************)
\* msg(text, attachments, response_type, replace_original)
msg(text, attachments, response_type, replace_original) ==
    IF attachments # <<>>
    THEN [text |-> text, responseType |-> response_type,
          replaceOriginal |-> replace_original, deleteOriginal |-> FALSE,
          attachments |-> attachments]
    ELSE [text |-> text, responseType |-> response_type,
          replaceOriginal |-> replace_original, deleteOriginal |-> FALSE]

\* f'(dooray://{tenant_id}/members/{user_id} "{label}")'
mention(tenant_id, user_id, label) ==
    <<"(dooray://">> \o tenant_id \o <<"/members/">> \o user_id
        \o <<Blank, "\"">> \o label \o <<"\")">>

(***************************************************************************)
(* Availability.                                                           *)
(***************************************************************************)
\* a slip: only an identical interval counts as overlapping
overlaps_exact(a_start, a_end, b_start, b_end) ==
    a_start = b_start /\ a_end = b_end

\* a slip: intervals that only touch count as overlapping
overlaps_closed(a_start, a_end, b_start, b_end) ==
    StrLE(b_start, a_end) /\ StrLE(a_start, b_end)

overlaps(a_start, a_end, b_start, b_end) ==
    ~ (StrLE(a_end, b_start) \/ StrLE(b_end, a_start))

\* a slip: the date of the record is not compared
room_busy_anyday(rs, room_id, start, end, t) ==
    \E i \in 1..Len(rs) :
        /\ rs[i].roomId = room_id
        /\ overlaps(start, end, rs[i].start, rs[i].end)

\* room_busy over the loaded reservation list rs at clock value t
room_busy(rs, room_id, start, end, t) ==
    \E i \in 1..Len(rs) :
        /\ rs[i].roomId = room_id
        /\ rs[i].date = Today(t)
        /\ overlaps(start, end, rs[i].start, rs[i].end)

(***************************************************************************)
(* Selector options.                                                       *)
(***************************************************************************)
\* t in kw
IsSubstr(t, kw) ==
    \E i \in 0..Len(kw) :
        i + Len(t) <= Len(kw) /\ SubSeq(kw, i + 1, i + Len(t)) = t

\* the sort key (x.get("floor", 0), x["name"]) of a before that of b
KeyLT(a, b) ==
    \/ a.floor < b.floor
    \/ a.floor = b.floor /\ a.name # b.name /\ StrLE(a.name, b.name)

\* list.sort: stable insertion of r into the sorted list l
RECURSIVE Insert(_, _)
Insert(l, r) ==
    IF l = <<>> THEN <<r>>
    ELSE IF KeyLT(r, Head(l)) THEN <<r>> \o l
    ELSE <<Head(l)>> \o Insert(Tail(l), r)

RECURSIVE Sorted(_)
Sorted(l) ==
    IF l = <<>> THEN <<>> ELSE Insert(Sorted(SubSeq(l, 1, Len(l) - 1)), l[Len(l)])

\* floor: <<>> (None) or <<n>>; hint: None or a str
room_options(floor, hint) ==
    LET OnFloor(r) == r.floor = floor[1]
        Hinted(r)  == IsSubstr(r.id, hint) \/ IsSubstr(r.name, hint)
        rooms1 == IF floor # <<>> /\ floor[1] # 0
                  THEN SelectSeq(load_rooms, OnFloor) ELSE load_rooms
        rooms2 == IF ~ Falsy(hint) THEN SelectSeq(rooms1, Hinted) ELSE rooms1
        rooms  == Sorted(rooms2)
    IN [i \in 1..Len(rooms) |->
          [text  |-> rooms[i].name \o <<" ", "(">> \o rooms[i].id \o <<")">>,
           value |-> rooms[i].id]]

\* the 30-minute slots 08:00 .. 20:00
Slots == [i \in 1..25 |-> HHMM(480 + 30 * (i - 1))]

time_options(pref) ==
    LET NotPref(x) == x # pref
        first == IF \E i \in 1..Len(Slots) : Slots[i] = pref
                 THEN CHOOSE i \in 1..Len(Slots) :
                          Slots[i] = pref /\ \A j \in 1..(i - 1) : Slots[j] # pref
                 ELSE 0
        slots == IF ~ Falsy(pref) /\ first # 0
                 THEN <<pref>> \o SubSeq(Slots, 1, first - 1)
                              \o SubSeq(Slots, first + 1, Len(Slots))
                 ELSE Slots
    IN [i \in 1..Len(slots) |-> [text |-> slots[i], value |-> slots[i]]]

(***************************************************************************)
(* NLP.  The regular expressions are matched as re.search matches them:    *)
(* at the leftmost position, a greedy quantifier trying its longest        *)
(* alternative first.  The OpenAI client is absent (no OPENAI_API_KEY).    *)
(***************************************************************************)
IsDigit(c) == c \in {"0", "1", "2", "3", "4", "5", "6", "7", "8", "9"}

DigitVal(c) == Rank(c) - 1

NotBlank(c) == c # Blank

\* text.replace(" ", "")
RemoveBlanks(t) == SelectSeq(t, NotBlank)

\* the literal w stands at position i of t
At(t, i, w) == i + Len(w) - 1 <= Len(t) /\ SubSeq(t, i, i + Len(w) - 1) = w

\* \d{n} matches at position i of t
Digits(t, i, n) == i + n - 1 <= Len(t) /\ \A j \in i..(i + n - 1) : IsDigit(t[j])

\* int() of the n <= 2 digits at position i of t
Int(t, i, n) ==
    IF n = 1 THEN DigitVal(t[i]) ELSE 10 * DigitVal(t[i]) + DigitVal(t[i + 1])

\* the position \s* reaches from position i of t
RECURSIVE SkipBlanks(_, _)
SkipBlanks(t, i) == IF i <= Len(t) /\ t[i] = Blank THEN SkipBlanks(t, i + 1) ELSE i

\* (?::?(\d{2}))? tries ":dd", then "dd", then nothing
MinuteAlts == <<"colon", "plain", "none">>

MinuteOk(t, i, alt) ==
    CASE alt = "colon" -> At(t, i, <<":">>) /\ Digits(t, i + 1, 2)
      [] alt = "plain" -> Digits(t, i, 2)
      [] alt = "none"  -> TRUE

MinuteLen(alt) == CASE alt = "colon" -> 3 [] alt = "plain" -> 2 [] alt = "none" -> 0

\* int(m.group("s_m") or 0)
MinuteVal(t, i, alt) ==
    CASE alt = "colon" -> Int(t, i + 1, 2)
      [] alt = "plain" -> Int(t, i, 2)
      [] alt = "none"  -> 0

\* length of (?:~|buteo) at position i of t, 0 if it does not match
SepLen(t, i) ==
    IF At(t, i, <<"~">>) THEN 1 ELSE IF At(t, i, <<"bu", "teo">>) THEN 2 ELSE 0

\* the ways (\d{1,2})(?::?(\d{2}))? can match, in the order they are tried
StartAlts ==
    << [h |-> 2, m |-> "colon"], [h |-> 2, m |-> "plain"], [h |-> 2, m |-> "none"],
       [h |-> 1, m |-> "colon"], [h |-> 1, m |-> "plain"], [h |-> 1, m |-> "none"] >>

\* position of the end hour when the start matches at i in the way a
EndPos(t, i, a) ==
    LET k == SkipBlanks(t, i + a.h + MinuteLen(a.m))
    IN k + SepLen(t, k)

\* the start, the separator and one digit of the end hour match at i
StartOk(t, i, a) ==
    /\ Digits(t, i, a.h)
    /\ MinuteOk(t, i + a.h, a.m)
    /\ SepLen(t, SkipBlanks(t, i + a.h + MinuteLen(a.m))) > 0
    /\ Digits(t, EndPos(t, i, a), 1)

NoMatch == [matched |-> FALSE]

\* TIME_RANGE_RE.search(t) and the int() of its groups
TimeRangeSearch(t) ==
    IF \E i \in 1..Len(t), n \in 1..6 : StartOk(t, i, StartAlts[n])
    THEN LET Hit(i) == \E n \in 1..6 : StartOk(t, i, StartAlts[n])
             i  == CHOOSE x \in 1..Len(t) : Hit(x) /\ \A y \in 1..(x - 1) : ~ Hit(y)
             n  == CHOOSE x \in 1..6 :
                      /\ StartOk(t, i, StartAlts[x])
                      /\ \A y \in 1..(x - 1) : ~ StartOk(t, i, StartAlts[y])
             a  == StartAlts[n]
             p  == EndPos(t, i, a)
             eh == IF Digits(t, p, 2) THEN 2 ELSE 1
             em == MinuteAlts[CHOOSE x \in 1..3 :
                                 /\ MinuteOk(t, p + eh, MinuteAlts[x])
                                 /\ \A y \in 1..(x - 1) : ~ MinuteOk(t, p + eh, MinuteAlts[y])]
         IN [matched |-> TRUE,
             s_h |-> Int(t, i, a.h), s_m |-> MinuteVal(t, i + a.h, a.m),
             e_h |-> Int(t, p, eh),  e_m |-> MinuteVal(t, p + eh, em)]
    ELSE NoMatch

\* (\d{1,2})\s*cheung matches at position i of t with h digits
FloorOk(t, i, h) == Digits(t, i, h) /\ At(t, SkipBlanks(t, i + h), <<"cheung">>)

\* FLOOR_RE.search(t) and the int() of its group
FloorSearch(t) ==
    IF \E i \in 1..Len(t), h \in 1..2 : FloorOk(t, i, h)
    THEN LET Hit(i) == FloorOk(t, i, 2) \/ FloorOk(t, i, 1)
             i == CHOOSE x \in 1..Len(t) : Hit(x) /\ \A y \in 1..(x - 1) : ~ Hit(y)
         IN [matched |-> TRUE, floor |-> Int(t, i, IF FloorOk(t, i, 2) THEN 2 ELSE 1)]
    ELSE NoMatch

\* ROOM_NAME_TOKEN_RE.search(t)
RoomNameToken(t) ==
    IsSubstr(<<"hoe", "ui", "sil">>, t) \/ IsSubstr(<<"rum">>, t) \/ IsSubstr(<<"bang">>, t)

\* datetime(...) raises for an hour above 23 or a minute above 59
ValueError == [raised |-> "ValueError"]

parse_natural(text0) ==
    LET text  == Strip(IF Falsy(text0) THEN <<>> ELSE text0)
        m     == TimeRangeSearch(RemoveBlanks(text))
        start == m.s_h * 60 + m.s_m
        end0  == m.e_h * 60 + m.e_m
        end   == IF end0 <= start THEN end0 + 60 ELSE end0
        fm    == FloorSearch(text)
    IN IF m.matched /\ (m.s_h > 23 \/ m.s_m > 59 \/ m.e_h > 23 \/ m.e_m > 59)
       THEN ValueError
       ELSE [floor     |-> IF fm.matched THEN <<fm.floor>> ELSE <<>>,
             room_hint |-> IF RoomNameToken(text) THEN text ELSE None,
             start     |-> IF m.matched THEN HHMM(start) ELSE None,
             end       |-> IF m.matched THEN HHMM(end % 1440) ELSE None,
             title     |-> text]

(***************************************************************************)
(* UI.                                                                     *)
(***************************************************************************)
StatusTitle == <<"ye", "yag", " ", "hyeon", "hwang">>
NoneYetTitle == <<"a", "jik", " ", "eobs", "eum">>
NoneYetValue == <<"jechul", " ", "si", " ", "yeogie", " ", "pyosidoebnida.">>
CardText == <<"hoeuisil yeyag">>
SelectAllText == <<"hoeuisil/sijag/jongnyoreul modu seontaeghae juseyo.">>
BusyText == <<"seontaeghan sigane haedang hoeuisireun imi yeyagdoeeo isseoyo.">>

\* str(n) of a floor number below 100
IntStr(n) ==
    LET d(k) == HHMM(k)[5]
    IN IF n < 10 THEN <<d(n)>> ELSE <<d(n \div 10), d(n % 10)>>

build_template_ui(nlu) ==
    LET floor == nlu.floor
        room_opts  == room_options(floor, nlu.room_hint)
        start_opts == time_options(nlu.start)
        end_opts   == time_options(nlu.end)
        info1 == IF floor # <<>> /\ floor[1] # 0
                 THEN << <<"* cheung pilteo: ">> \o IntStr(floor[1]) \o <<"cheung">> >>
                 ELSE <<>>
        info2 == IF ~ Falsy(nlu.start) /\ ~ Falsy(nlu.end)
                 THEN << <<"* sigan hubo: ">> \o nlu.start \o <<" ", "~", " ">> \o nlu.end >>
                 ELSE <<>>
        info3 == IF ~ Falsy(nlu.room_hint)
                 THEN << <<"* bang hinteu: ">> \o nlu.room_hint >>
                 ELSE <<>>
        info == info1 \o info2 \o info3
        RECURSIVE Lines(_)
        Lines(l) == IF Len(l) = 1 THEN l[1] ELSE l[1] \o <<"\n">> \o Lines(Tail(l))
        info_text == IF info # <<>> THEN Lines(info)
                     ELSE <<"wonhaneun gabseul seontaeghago jechureul nulleojuseyo.">>
    IN msg(CardText,
           << [title |-> <<"hoeuisil seontaeg">>,
               actions |-> << [name |-> "room", type |-> "select", text |-> <<"hoeuisil">>,
                               options |-> IF room_opts # <<>> THEN room_opts
                                           ELSE << [text |-> <<"(hoeuisil eobseum)">>,
                                                    value |-> <<"__none__">>] >>] >>],
              [title |-> <<"sigan seontaeg">>, text |-> info_text,
               actions |-> << [name |-> "start", type |-> "select", text |-> <<"sijag">>,
                               options |-> start_opts],
                              [name |-> "end", type |-> "select", text |-> <<"jongnyo">>,
                               options |-> end_opts] >>],
              [callbackId |-> <<"meeting-submit">>,
               actions |-> << [name |-> "submit", type |-> "button", text |-> <<"jechul">>,
                               value |-> <<"submit">>, style |-> "primary"] >>],
              [title |-> StatusTitle,
               fields |-> << [title |-> NoneYetTitle, value |-> NoneYetValue,
                              short |-> FALSE] >>] >>,
           "inChannel", FALSE)

(***************************************************************************)
(* Status codec.  The status dict is a sequence of pairs [k, v] with       *)
(* pairwise different k, in insertion order.                               *)
(***************************************************************************)
HasKey(d, k) == \E i \in 1..Len(d) : d[i].k = k

\* d[k], for a key of d
Lookup(d, k) == d[CHOOSE i \in 1..Len(d) : d[i].k = k].v

\* d[k] = v
DictSet(d, k, v) ==
    IF HasKey(d, k)
    THEN [i \in 1..Len(d) |-> IF d[i].k = k THEN [k |-> k, v |-> v] ELSE d[i]]
    ELSE Append(d, [k |-> k, v |-> v])

\* the loop over the fields of one status attachment
RECURSIVE ParseFields(_, _)
ParseFields(fs, out) ==
    IF fs = <<>> THEN out
    ELSE LET f == Head(fs)
             k == IF Falsy(Get(f, "title")) THEN <<>> ELSE f.title
             v == Strip(IF Falsy(Get(f, "value")) THEN <<>> ELSE f.value)
         IN ParseFields(Tail(fs),
                        IF k # <<>> THEN DictSet(out, k, SelectSeq(Split(v), NonEmpty))
                        ELSE out)

\* the loop over the attachments
RECURSIVE ParseAtts(_, _)
ParseAtts(atts, out) ==
    IF atts = <<>> THEN out
    ELSE LET att == Head(atts)
         IN ParseAtts(Tail(atts),
                      IF Get(att, "title") = StatusTitle
                      THEN ParseFields(IF "fields" \in DOMAIN att THEN att.fields ELSE <<>>,
                                       out)
                      ELSE out)

\* original.get("attachments") or []
Attachments(original) ==
    IF "attachments" \in DOMAIN original THEN original.attachments ELSE <<>>

parse_status(original) == ParseAtts(Attachments(original), <<>>)

status_fields(status) ==
    IF status = <<>>
    THEN << [title |-> NoneYetTitle, value |-> NoneYetValue, short |-> FALSE] >>
    ELSE [i \in 1..Len(status) |->
            [title |-> status[i].k,
             value |-> IF status[i].v # <<>> THEN Join(status[i].v) ELSE <<"-">>,
             short |-> FALSE]]

(***************************************************************************)
(* Ephemeral state (room/start/end).  The "_ts" entry of the source is     *)
(* written and never read; it is left out of the modelled dict.            *)
(***************************************************************************)
EmptyDict == [x \in {} |-> x]

\* a slip: the entry is replaced by the keyword arguments alone
set_state_replace(S, chlog, uid, f, v) ==
    [k \in (DOMAIN S) \cup {<<chlog, uid>>} |->
        IF k = <<chlog, uid>> THEN [x \in {f} |-> v] ELSE S[k]]

\* a slip: the store is rebound to a dict that holds this key alone
set_state_only(S, chlog, uid, f, v) ==
    LET key == <<chlog, uid>>
        st  == IF key \in DOMAIN S THEN S[key] ELSE EmptyDict
    IN [k \in {key} |-> [x \in (DOMAIN st) \cup {f} |-> IF x = f THEN v ELSE st[x]]]

\* the body of set_state(chlog, uid, **{f: v}) on the store S
set_state(S, chlog, uid, f, v) ==
    LET key == <<chlog, uid>>
        st  == IF key \in DOMAIN S THEN S[key] ELSE EmptyDict
        st2 == [x \in (DOMAIN st) \cup {f} |-> IF x = f THEN v ELSE st[x]]
    IN [k \in (DOMAIN S) \cup {key} |-> IF k = key THEN st2 ELSE S[k]]

get_state(S, chlog, uid) ==
    IF <<chlog, uid>> \in DOMAIN S THEN S[<<chlog, uid>>] ELSE EmptyDict

(***************************************************************************)
(* Responses.  A handler that returns answers 200 with its payload; an     *)
(* exception that leaves the handler is answered by the framework with     *)
(* status 500 and no payload of the card schema.                           *)
(***************************************************************************)
Ok(payload) == [status |-> 200, body |-> payload]
InternalServerError == [status |-> 500]

(***************************************************************************)
(* The submit branch of meeting_actions, as functions of what it read.     *)
(***************************************************************************)
\* a slip: only a missing value counts, an empty one passes
Incomplete_none(st) ==
    Get(st, "room") = None \/ Get(st, "start") = None \/ Get(st, "end") = None

Incomplete(st) ==
    Falsy(Get(st, "room")) \/ Falsy(Get(st, "start")) \/ Falsy(Get(st, "end"))

new_rec(st, user_id, t) ==
    [id         |-> <<"RV-", Timestamp(t), "-">> \o user_id,
     date       |-> Today(t),
     roomId     |-> st.room,
     start      |-> st.start,
     end        |-> st.end,
     title      |-> RoomName(st.room) \o <<" ", "ye", "yag">>,
     reservedBy |-> user_id]

\* status after "status[key] = [u for u in status[key] if u != tag] + [tag]"
UpdateStatus(status, key, tag) ==
    LET NotTag(u) == u # tag
        status1 == IF HasKey(status, key) THEN status ELSE DictSet(status, key, <<>>)
    IN DictSet(status1, key, Append(SelectSeq(Lookup(status1, key), NotTag), tag))

\* the loop that rebuilds the attachment list
RECURSIVE ReplaceStatus(_, _)
ReplaceStatus(atts, status) ==
    IF atts = <<>> THEN <<>>
    ELSE (IF Get(Head(atts), "title") = StatusTitle
          THEN << [title |-> StatusTitle, fields |-> status_fields(status)] >>
          ELSE << Head(atts) >>) \o ReplaceStatus(Tail(atts), status)

\* a slip: the status section is appended, the old one kept
new_atts_append(original, status) ==
    Append(Attachments(original),
           [title |-> StatusTitle, fields |-> status_fields(status)])

new_atts(original, status) ==
    LET atts == Attachments(original)
        replaced == \E i \in 1..Len(atts) : Get(atts[i], "title") = StatusTitle
    IN IF replaced THEN ReplaceStatus(atts, status)
       ELSE Append(atts, [title |-> StatusTitle, fields |-> status_fields(status)])

\* the payload of a successful submit
SubmitCard(original, st, tenant_id, user_id) ==
    LET status == parse_status(original)
        key == RoomName(st.room) \o <<" ">> \o st.start \o <<"~">> \o st.end
        tag == mention(tenant_id, user_id, <<"member">>)
    IN [text |-> IF Falsy(Get(original, "text")) THEN CardText ELSE original.text,
        attachments |-> new_atts(original, UpdateStatus(status, key, tag)),
        responseType |-> "inChannel",
        replaceOriginal |-> TRUE]

(***************************************************************************)
(* Inputs of the callbacks.                                                *)
(***************************************************************************)
R301 == <<"R", "3", "0", "1">>
T0900 == HHMM(540)
T1000 == HHMM(600)
T1100 == HHMM(660)

Fields == {"room", "start", "end"}
RoomValues == {R301, <<>>}
StartValues == {T0900}
EndValues == {T1000, T1100}
Values(name) ==
    IF name = "room" THEN RoomValues
    ELSE IF name = "start" THEN StartValues ELSE EndValues

EmptyNlu == [floor |-> <<>>, start |-> None, end |-> None, room_hint |-> None]

\* "3cheung 9~11 hoeuisil"
ScenarioA == <<"3", "cheung", " ", "9", "~", "1", "1", " ", "hoe", "ui", "sil">>

(***************************************************************************)
(* State after start-up: an empty reservation file, an empty session       *)
(* store, no card rendered yet.                                            *)
(***************************************************************************)
NoResponse == [status |-> 0]
NoCard == [none |-> TRUE]
NoRequest == [op |-> "none"]
\* no function is being checked on its own
NoCall == [fn |-> "none"]

\* the program's own state after start-up
Started ==
    /\ resv = <<>>
    /\ _state = EmptyDict
    /\ card = [c \in Convs |-> NoCard]
    /\ now = 0
    /\ resp = NoResponse
    /\ pc = [w \in Workers |-> "idle"]
    /\ loc = [w \in Workers |-> NoRequest]
    /\ _state_lock = 0
    /\ _db_lock = 0

Init == Started /\ arg = NoCall /\ ret = NoCall

\* the message a client shows, and echoes as originalMessage, after payload p
Shown(p) == [text |-> p.text, attachments |-> p.attachments]

(***************************************************************************)
(* Handlers, each run from request to response without interleaving.       *)
(***************************************************************************)
\* the hints meeting_command passes to build_template_ui for data_text
CommandNlu(data_text) ==
    LET text == Strip(IF Falsy(data_text) THEN <<>> ELSE data_text)
    IN IF text = <<>> THEN EmptyNlu ELSE parse_natural(text)

\* POST /dooray/meeting/command with the text data_text: a new message c
meeting_command(c, data_text) ==
    /\ card[c] = NoCard
    /\ \E nlu \in {CommandNlu(data_text)} :
         IF nlu = ValueError
         THEN /\ resp' = InternalServerError
              /\ card' = card
         ELSE \E payload \in {build_template_ui(nlu)} :
                 /\ resp' = Ok(payload)
                 /\ card' = [card EXCEPT ![c] = Shown(payload)]
    /\ UNCHANGED <<arg, ret, resv, _state, now, pc, loc, _state_lock, _db_lock>>

\* the branch "if action_name in (room, start, end)"
DropdownBranch(c, u, action_name, action_value) ==
    /\ _state' = set_state(_state, c, u, action_name, action_value)
    /\ resp' = Ok(EmptyDict)
    /\ UNCHANGED <<arg, ret, resv, card, now, pc, loc, _state_lock, _db_lock>>

\* a slip: the file is overwritten with the new record alone
save_reservations_last(rs, ok) ==
    resv' = IF ok THEN <<rs[Len(rs)]>> ELSE resv

\* save_reservations(rs): the write succeeds, or open() raises and the file
\* is as it was
save_reservations(rs, ok) ==
    resv' = IF ok THEN rs ELSE resv

\* a slip: a submit that wrote the file drops the selection it consumed
SubmitBranch_clear(c, u) ==
    LET st == get_state(_state, c, u)
        original == card[c]
    IN IF Incomplete(st)
       THEN /\ resp' = Ok(msg(SelectAllText, <<>>, "ephemeral", FALSE))
            /\ UNCHANGED <<arg, ret, resv, _state, card, now, pc, loc, _state_lock, _db_lock>>
       ELSE IF room_busy(resv, st.room, st.start, st.end, now)
       THEN /\ resp' = Ok(msg(BusyText, <<>>, "ephemeral", FALSE))
            /\ UNCHANGED <<arg, ret, resv, _state, card, now, pc, loc, _state_lock, _db_lock>>
       ELSE /\ Len(resv) < MaxResv
            /\ \E ok \in BOOLEAN :
                 /\ resv' = IF ok THEN Append(resv, new_rec(st, u, now)) ELSE resv
                 /\ IF ok
                    THEN /\ resp' = Ok(SubmitCard(original, st, Tenant, u))
                         /\ card' = [card EXCEPT
                                       ![c] = Shown(SubmitCard(original, st, Tenant, u))]
                         /\ _state' = [k \in (DOMAIN _state) \ {<<c, u>>} |-> _state[k]]
                    ELSE /\ resp' = InternalServerError
                         /\ card' = card
                         /\ _state' = _state
            /\ UNCHANGED <<arg, ret, now, pc, loc, _state_lock, _db_lock>>

\* the branch "if action_value == submit"
SubmitBranch(c, u) ==
    LET st == get_state(_state, c, u)
        original == card[c]
    IN IF Incomplete(st)
       THEN /\ resp' = Ok(msg(SelectAllText, <<>>, "ephemeral", FALSE))
            /\ UNCHANGED <<arg, ret, resv, _state, card, now, pc, loc, _state_lock, _db_lock>>
       ELSE IF room_busy(resv, st.room, st.start, st.end, now)
       THEN /\ resp' = Ok(msg(BusyText, <<>>, "ephemeral", FALSE))
            /\ UNCHANGED <<arg, ret, resv, _state, card, now, pc, loc, _state_lock, _db_lock>>
       ELSE /\ Len(resv) < MaxResv
            /\ \E ok \in BOOLEAN :
                 /\ save_reservations(Append(resv, new_rec(st, u, now)), ok)
                 /\ IF ok
                    THEN /\ resp' = Ok(SubmitCard(original, st, Tenant, u))
                         /\ card' = [card EXCEPT
                                       ![c] = Shown(SubmitCard(original, st, Tenant, u))]
                    ELSE /\ resp' = InternalServerError
                         /\ card' = card
            /\ UNCHANGED <<arg, ret, _state, now, pc, loc, _state_lock, _db_lock>>

\* POST /dooray/meeting/actions from the card of message c by user u
meeting_actions(c, u, action_name, value) ==
    LET action_value == Strip(value)
    IN /\ card[c] # NoCard
       /\ IF action_name \in {"room", "start", "end"}
          THEN DropdownBranch(c, u, action_name, action_value)
          ELSE IF action_value = <<"submit">>
          THEN SubmitBranch(c, u)
          ELSE /\ resp' = Ok(EmptyDict)
               /\ UNCHANGED <<arg, ret, resv, _state, card, now, pc, loc, _state_lock, _db_lock>>

Command == \E c \in Convs : meeting_command(c, <<>>)

Dropdown ==
    \E c \in Convs, u \in Users, name \in Fields :
        \E v \in Values(name) : meeting_actions(c, u, name, v)

Submit == \E c \in Convs, u \in Users : meeting_actions(c, u, "submit", <<"submit">>)

Ignored == \E c \in Convs, u \in Users : meeting_actions(c, u, "cancel", <<"cancel">>)

\* the wall clock advances by one second
Tick ==
    /\ now < MaxNow
    /\ now' = now + 1
    /\ UNCHANGED <<arg, ret, resv, _state, card, resp, pc, loc, _state_lock, _db_lock>>

Next == Command \/ Dropdown \/ Submit \/ Ignored \/ Tick

Spec == Init /\ [][Next]_vars

(***************************************************************************)
(* SpecIv: the handlers run one at a time, within one second, for one user *)
(* who selects among two rooms and all the intervals, empty and inverted   *)
(* ones included, that three slots of the selectors give.                  *)
(***************************************************************************)
R401 == <<"R", "4", "0", "1">>

ValuesIv(name) == IF name = "room" THEN {R301, R401} ELSE {T0900, T1000, T1100}

DropdownIv ==
    \E c \in Convs, name \in Fields :
        \E v \in ValuesIv(name) : meeting_actions(c, <<"u1">>, name, v)

SubmitIv == \E c \in Convs : meeting_actions(c, <<"u1">>, "submit", <<"submit">>)

NextIv == Command \/ DropdownIv \/ SubmitIv

SpecIv == Init /\ [][NextIv]_vars

(***************************************************************************)
(* SpecCmd: the command with a text, then the callbacks user u1 can send   *)
(* from the card shown: a dropdown change carries the value of an option   *)
(* of the selector (any room option, one of the first two time options).   *)
(***************************************************************************)
CmdTexts ==
    {<<>>, ScenarioA, <<"4", "cheung">>, <<"R", "3", "0", "1", " ", "bang">>,
     <<"9", "~", "9", "3", "0">>}

\* the options of the selector called name of the message m
SelectorOptions(m, name) ==
    LET att == IF name = "room" THEN m.attachments[1] ELSE m.attachments[2]
        j   == CHOOSE x \in 1..Len(att.actions) : att.actions[x].name = name
    IN att.actions[j].options

\* the values a client can send for the selector called name
ShownValues(m, name) ==
    LET opts == SelectorOptions(m, name)
        some == IF name = "room" THEN opts ELSE SubSeq(opts, 1, 2)
    IN {some[i].value : i \in 1..Len(some)}

CommandText == \E c \in Convs, text \in CmdTexts : meeting_command(c, text)

DropdownShown ==
    \E c \in Convs, name \in Fields :
        /\ card[c] # NoCard
        /\ \E v \in ShownValues(card[c], name) : meeting_actions(c, <<"u1">>, name, v)

NextCmd == CommandText \/ DropdownShown \/ SubmitIv

SpecCmd == Init /\ [][NextCmd]_vars

(***************************************************************************)
(* Concurrent callbacks.  The locks of the source say that requests are    *)
(* served by concurrent workers that share _state, the two locks and the   *)
(* reservation file.  A worker takes one request and runs its handler in   *)
(* steps, one per access to what is shared; loc[w] holds the request and   *)
(* the handler's local variables.  The workers of a round return to idle   *)
(* together, so the requests of a round are the concurrent ones.           *)
(***************************************************************************)
Goto(w, label) == pc' = [pc EXCEPT ![w] = label]

\* a dropdown-change callback arrives at the idle worker w
BeginSet(w, c, u, name, value) ==
    /\ pc[w] = "idle"
    /\ card[c] # NoCard
    /\ loc' = [loc EXCEPT ![w] = [op |-> "set", c |-> c, u |-> u, name |-> name,
                                  value |-> Strip(value), fresh |-> FALSE,
                                  st |-> EmptyDict]]
    /\ Goto(w, "set_acquire")
    /\ UNCHANGED <<arg, ret, resv, _state, card, now, resp, _state_lock, _db_lock>>

\* a slip: the store is updated without taking the lock
AcquireState_unlocked(w) ==
    /\ pc[w] = "set_acquire"
    /\ _state_lock' = w
    /\ Goto(w, "set_read")
    /\ UNCHANGED <<arg, ret, resv, _state, card, now, resp, loc, _db_lock>>

\* "with _state_lock:" entered
AcquireState(w) ==
    /\ pc[w] = "set_acquire"
    /\ _state_lock = 0
    /\ _state_lock' = w
    /\ Goto(w, "set_read")
    /\ UNCHANGED <<arg, ret, resv, _state, card, now, resp, loc, _db_lock>>

\* st = _state.get((chlog, uid), {...}): the stored dict itself, or a new one
ReadState(w) ==
    /\ pc[w] = "set_read"
    /\ loc' = [loc EXCEPT ![w].fresh = <<loc[w].c, loc[w].u>> \notin DOMAIN _state]
    /\ Goto(w, "set_update")
    /\ UNCHANGED <<arg, ret, resv, _state, card, now, resp, _state_lock, _db_lock>>

\* st.update(kw): in place on the stored dict, or on the new one
UpdateState(w) ==
    /\ pc[w] = "set_update"
    /\ IF loc[w].fresh
       THEN /\ loc' = [loc EXCEPT ![w].st = [x \in {loc[w].name} |-> loc[w].value]]
            /\ _state' = _state
       ELSE /\ _state' = set_state(_state, loc[w].c, loc[w].u, loc[w].name, loc[w].value)
            /\ loc' = loc
    /\ Goto(w, "set_store")
    /\ UNCHANGED <<arg, ret, resv, card, now, resp, _state_lock, _db_lock>>

\* _state[(chlog, uid)] = st, the lock released, the empty acknowledgment
StoreState(w) ==
    /\ pc[w] = "set_store"
    /\ _state' = IF loc[w].fresh
                 THEN [k \in (DOMAIN _state) \cup {<<loc[w].c, loc[w].u>>} |->
                         IF k = <<loc[w].c, loc[w].u>> THEN loc[w].st ELSE _state[k]]
                 ELSE _state
    /\ _state_lock' = IF _state_lock = w THEN 0 ELSE _state_lock
    /\ resp' = Ok(EmptyDict)
    /\ Goto(w, "done")
    /\ UNCHANGED <<arg, ret, resv, card, now, loc, _db_lock>>

\* a submit callback arrives at the idle worker w with the shown card
BeginSubmit(w, c, u) ==
    /\ pc[w] = "idle"
    /\ card[c] # NoCard
    /\ loc' = [loc EXCEPT ![w] = [op |-> "submit", c |-> c, u |-> u,
                                  original |-> card[c], st |-> EmptyDict,
                                  rs |-> <<>>, outcome |-> "running"]]
    /\ Goto(w, "sub_get")
    /\ UNCHANGED <<arg, ret, resv, _state, card, now, resp, _state_lock, _db_lock>>

\* st = get_state(...) and the completeness test
GetState(w) ==
    /\ pc[w] = "sub_get"
    /\ _state_lock = 0
    /\ LET st == get_state(_state, loc[w].c, loc[w].u)
       IN IF Incomplete(st)
          THEN /\ resp' = Ok(msg(SelectAllText, <<>>, "ephemeral", FALSE))
               /\ loc' = [loc EXCEPT ![w].outcome = "incomplete"]
               /\ Goto(w, "done")
          ELSE /\ resp' = resp
               /\ loc' = [loc EXCEPT ![w].st = st]
               /\ Goto(w, "sub_check")
    /\ UNCHANGED <<arg, ret, resv, _state, card, now, _state_lock, _db_lock>>

\* room_busy(room_id, start, end): loads the file
CheckBusy(w) ==
    /\ pc[w] = "sub_check"
    /\ IF room_busy(resv, loc[w].st.room, loc[w].st.start, loc[w].st.end, now)
       THEN /\ resp' = Ok(msg(BusyText, <<>>, "ephemeral", FALSE))
            /\ loc' = [loc EXCEPT ![w].outcome = "busy"]
            /\ Goto(w, "done")
       ELSE /\ resp' = resp
            /\ loc' = loc
            /\ Goto(w, "sub_load")
    /\ UNCHANGED <<arg, ret, resv, _state, card, now, _state_lock, _db_lock>>

\* resv = load_reservations(); resv.append(new_rec)
LoadAppend(w) ==
    /\ pc[w] = "sub_load"
    /\ Len(resv) < MaxResv
    /\ loc' = [loc EXCEPT ![w].rs = Append(resv, new_rec(loc[w].st, loc[w].u, now))]
    /\ Goto(w, "sub_acquire")
    /\ UNCHANGED <<arg, ret, resv, _state, card, now, resp, _state_lock, _db_lock>>

\* "with _db_lock:" entered
AcquireDb(w) ==
    /\ pc[w] = "sub_acquire"
    /\ _db_lock = 0
    /\ _db_lock' = w
    /\ Goto(w, "sub_write")
    /\ UNCHANGED <<arg, ret, resv, _state, card, now, resp, loc, _state_lock>>

\* the file written and the lock released, then the card rebuilt and returned
WriteRespond(w) ==
    /\ pc[w] = "sub_write"
    /\ \E ok \in BOOLEAN :
         /\ save_reservations(loc[w].rs, ok)
         /\ IF ok
            THEN /\ resp' = Ok(SubmitCard(loc[w].original, loc[w].st, Tenant, loc[w].u))
                 /\ card' = [card EXCEPT ![loc[w].c] =
                               Shown(SubmitCard(loc[w].original, loc[w].st, Tenant, loc[w].u))]
                 /\ loc' = [loc EXCEPT ![w].outcome = "saved"]
            ELSE /\ resp' = InternalServerError
                 /\ card' = card
                 /\ loc' = [loc EXCEPT ![w].outcome = "error"]
    /\ _db_lock' = IF _db_lock = w THEN 0 ELSE _db_lock
    /\ Goto(w, "done")
    /\ UNCHANGED <<arg, ret, _state, now, _state_lock>>

\* the round is over: every worker that served a request has answered
EndRound ==
    /\ \A w \in Workers : pc[w] \in {"idle", "done"}
    /\ \E w \in Workers : pc[w] = "done"
    /\ pc' = [w \in Workers |-> "idle"]
    /\ loc' = [w \in Workers |-> NoRequest]
    /\ UNCHANGED <<arg, ret, resv, _state, card, now, resp, _state_lock, _db_lock>>

(***************************************************************************)
(* SpecSel: concurrent dropdown-change callbacks on a rendered card.       *)
(***************************************************************************)
\* the state once the command has rendered the card of every message
Rendered ==
    /\ resv = <<>>
    /\ card = [c \in Convs |-> Shown(build_template_ui(EmptyNlu))]
    /\ now = 0
    /\ resp = Ok(build_template_ui(EmptyNlu))
    /\ pc = [w \in Workers |-> "idle"]
    /\ loc = [w \in Workers |-> NoRequest]
    /\ _state_lock = 0
    /\ _db_lock = 0
    /\ arg = NoCall
    /\ ret = NoCall

InitSel == Rendered /\ _state = EmptyDict

SetRequest ==
    \E w \in Workers, c \in Convs, u \in Users, name \in Fields :
        \E v \in Values(name) : BeginSet(w, c, u, name, v)

SetStep ==
    \E w \in Workers :
        AcquireState(w) \/ ReadState(w) \/ UpdateState(w) \/ StoreState(w)

NextSel == SetRequest \/ SetStep \/ EndRound

SpecSel == InitSel /\ [][NextSel]_vars

(***************************************************************************)
(* SpecSub: concurrent submit callbacks, the users' selections made.       *)
(***************************************************************************)
\* the store after the three dropdown changes of user u on message c
Selected(S, c, u, room, start, end) ==
    set_state(set_state(set_state(S, c, u, "room", room), c, u, "start", start),
              c, u, "end", end)

InitSub ==
    /\ Rendered
    /\ \E c \in Convs :
         \/ \E sel \in {<<T0900, T1000>>, <<T1000, T1100>>, <<T0900, T1100>>} :
              _state = Selected(Selected(EmptyDict, c, <<"u1">>, R301, T0900, T1000),
                                c, <<"u2">>, R301, sel[1], sel[2])
         \/ _state = set_state(Selected(EmptyDict, c, <<"u1">>, R301, T0900, T1000),
                               c, <<"u2">>, "room", R301)

SubmitRequest ==
    \E w \in Workers, c \in Convs, u \in Users : BeginSubmit(w, c, u)

SubmitStep ==
    \E w \in Workers :
        GetState(w) \/ CheckBusy(w) \/ LoadAppend(w) \/ AcquireDb(w) \/ WriteRespond(w)

NextSub == SubmitRequest \/ SubmitStep \/ EndRound \/ Tick

SpecSub == InitSub /\ [][NextSub]_vars

(***************************************************************************)
(* Vocabulary of the properties.                                           *)
(***************************************************************************)
SubmitBy(c, u) == meeting_actions(c, u, "submit", <<"submit">>)

\* the selection of key (c, u) holds room, start and end, none of them empty
Complete(c, u) ==
    /\ <<c, u>> \in DOMAIN _state
    /\ \A f \in Fields : f \in DOMAIN _state[<<c, u>>] /\ _state[<<c, u>>][f] # <<>>

\* the payload is a card that replaces the original
IsReplacement(r) ==
    /\ r.status = 200
    /\ "replaceOriginal" \in DOMAIN r.body
    /\ r.body.replaceOriginal

\* the payload is the ephemeral message with this text, nothing replaced
IsEphemeral(r, text) ==
    /\ r.status = 200
    /\ DOMAIN r.body = {"text", "responseType", "replaceOriginal", "deleteOriginal"}
    /\ r.body.text = text
    /\ r.body.responseType = "ephemeral"
    /\ r.body.replaceOriginal = FALSE

\* the rows of the status section of a message
RECURSIVE StatusRows(_)
StatusRows(atts) ==
    IF atts = <<>> THEN <<>>
    ELSE (IF Get(Head(atts), "title") = StatusTitle THEN Head(atts).fields ELSE <<>>)
         \o StatusRows(Tail(atts))

\* the display key "<roomName> <start>~<end>"
DisplayKey(room, start, end) == RoomName(room) \o <<" ">> \o start \o <<"~">> \o end

Member(u) == mention(Tenant, u, <<"member">>)

\* number of places of the text v at which the text m occurs
Occurrences(m, v) ==
    Cardinality({i \in 1..Len(v) :
                    i + Len(m) - 1 <= Len(v) /\ SubSeq(v, i, i + Len(m) - 1) = m})

\* minutes after midnight of a time "HH:MM"
Minutes(t) ==
    ((Rank(t[1]) - 1) * 10 + (Rank(t[2]) - 1)) * 60
        + (Rank(t[4]) - 1) * 10 + (Rank(t[5]) - 1)

\* the half-open intervals [s1, e1) and [s2, e2) share an instant
ShareInstant(s1, e1, s2, e2) ==
    \E m \in 0..1439 :
        /\ Minutes(s1) <= m /\ m < Minutes(e1)
        /\ Minutes(s2) <= m /\ m < Minutes(e2)

FreshCard == Shown(build_template_ui(EmptyNlu))

\* the value of the row of the status section with this title (<<>> if none)
RowValue(atts, title) ==
    LET rows == StatusRows(atts)
    IN IF \E i \in 1..Len(rows) : rows[i].title = title
       THEN rows[CHOOSE i \in 1..Len(rows) : rows[i].title = title].value
       ELSE <<>>

(***************************************************************************)
(* SpecCodec: the status codec applied on its own.  A mapping is encoded   *)
(* into the status section of a rendered card, and the card is decoded.    *)
(***************************************************************************)
\* largest number of keys of a mapping
MaxKeys == 2

Keys ==
    {DisplayKey(R301, T0900, T1000), DisplayKey(R301, T1000, T1100),
     DisplayKey(R401, T0900, T1000)}

\* the non-empty lists of mentions of different users
MentionLists ==
    {<<Member(u)>> : u \in Users}
        \cup {<<Member(p[1]), Member(p[2])>> : p \in {q \in Users \X Users : q[1] # q[2]}}

\* the non-empty mappings: lists of [k, v] with pairwise different keys
Mappings ==
    UNION {{m \in [1..n -> [k : Keys, v : MentionLists]] :
               \A i \in 1..n, j \in 1..n : i # j => m[i].k # m[j].k} : n \in 1..MaxKeys}

InitCodec ==
    /\ Started
    /\ arg \in {[fn |-> "codec", m |-> m] : m \in Mappings}
    /\ ret = NoCall

\* the card whose status section is status_fields(m), as a submit builds it
Encode ==
    /\ arg.fn = "codec"
    /\ ret = NoCall
    /\ ret' = [fn |-> "encode",
               message |-> [text |-> FreshCard.text,
                            attachments |-> new_atts(FreshCard, arg.m)]]
    /\ UNCHANGED <<resv, _state, card, now, resp, pc, loc, _state_lock, _db_lock, arg>>

\* parse_status of the echoed card
Decode ==
    /\ ret.fn = "encode"
    /\ ret' = [fn |-> "decode", status |-> parse_status(ret.message)]
    /\ UNCHANGED <<resv, _state, card, now, resp, pc, loc, _state_lock, _db_lock, arg>>

NextCodec == Encode \/ Decode

SpecCodec == InitCodec /\ [][NextCodec]_vars

(***************************************************************************)
(* SpecBusy: room_busy applied on its own to a reservation file and a      *)
(* clock the program can have: records of two rooms and two dates whose    *)
(* intervals overlap, touch, nest or, as a submit of start = end leaves    *)
(* them, are empty.                                                        *)
(***************************************************************************)
BusyIntervals ==
    {<<T0900, T1000>>, <<T1000, T1100>>, <<T0900, T1100>>, <<T1000, T1000>>}

\* the records submits of user u1 write on the first and on the second day
Records ==
    {new_rec([room |-> r, start |-> iv[1], end |-> iv[2]], <<"u1">>, t) :
        r \in {R301, R401}, iv \in BusyIntervals, t \in {0, DayLen}}

\* the arguments: a room and a well-formed interval of the slot grid
BusyCalls ==
    {[fn |-> "room_busy", room_id |-> r, start |-> iv[1], end |-> iv[2]] :
        r \in {R301, R401}, iv \in {x \in BusyIntervals : x[1] # x[2]}}

InitBusy ==
    /\ resv \in UNION {[1..n -> Records] : n \in 0..MaxResv}
    /\ now \in {0, DayLen}
    /\ _state = EmptyDict
    /\ card = [c \in Convs |-> NoCard]
    /\ resp = NoResponse
    /\ pc = [w \in Workers |-> "idle"]
    /\ loc = [w \in Workers |-> NoRequest]
    /\ _state_lock = 0
    /\ _db_lock = 0
    /\ arg \in BusyCalls
    /\ ret = NoCall

RoomBusy ==
    /\ arg.fn = "room_busy"
    /\ ret = NoCall
    /\ ret' = [fn |-> "room_busy",
               busy |-> room_busy(resv, arg.room_id, arg.start, arg.end, now)]
    /\ UNCHANGED <<resv, _state, card, now, resp, pc, loc, _state_lock, _db_lock, arg>>

NextBusy == RoomBusy

SpecBusy == InitBusy /\ [][NextBusy]_vars

(***************************************************************************)
(* SpecNlu: parse_natural applied on its own to time-range texts (an hour  *)
(* of one or two digits, minutes with or without colon or none, the two    *)
(* separators, blanks around them) and to texts that name a floor or a     *)
(* room.                                                                   *)
(***************************************************************************)
HourTexts == {<<"0">>, <<"1">>, <<"9">>, <<"0", "9">>, <<"1", "1">>, <<"2", "3">>}
MinuteTexts == {<<>>, <<":", "3", "0">>, <<"3", "0">>, <<"0", "0">>}
SepTexts == {<<"~">>, <<"bu", "teo">>, <<" ", "~", " ">>}
TailTexts == {<<>>, <<"kka", "ji">>}

TimeTexts ==
    {x[1] \o x[2] \o x[3] \o x[4] \o x[5] \o x[6] :
        x \in HourTexts \X MinuteTexts \X SepTexts \X HourTexts \X MinuteTexts \X TailTexts}

OtherTexts ==
    {ScenarioA,
     <<"4", "cheung">>,
     <<"1", "2", " ", "cheung", " ", "rum">>,
     <<"R", "3", "0", "1", " ", "bang">>,
     <<" ", "3", "cheung", " ", "dae", "hoe", "ui", "sil", " ">>,
     <<"hoe", "ui">>}

InitNlu ==
    /\ Started
    /\ arg \in {[fn |-> "parse_natural", text |-> x] : x \in TimeTexts \cup OtherTexts}
    /\ ret = NoCall

ParseNatural ==
    /\ arg.fn = "parse_natural"
    /\ ret = NoCall
    /\ ret' = [fn |-> "parse_natural", out |-> parse_natural(arg.text)]
    /\ UNCHANGED <<resv, _state, card, now, resp, pc, loc, _state_lock, _db_lock, arg>>

NextNlu == ParseNatural

SpecNlu == InitNlu /\ [][NextNlu]_vars

(***************************************************************************)
(* Claims about the handlers run one at a time (Spec).                     *)
(***************************************************************************)
\* C1: a submit for a key whose selection holds room, start and end, for a
\* room that is not busy today, and whose write of the file succeeds,
\* appends exactly one record: its date is today, its roomId/start/end are
\* the selection of that key, its reservedBy is the submitting user; the
\* records already in the file stay as they were.
C1_SubmitAppendsOneRecord ==
    [][\A c \in Convs, u \in Users :
         (/\ SubmitBy(c, u)
          /\ Complete(c, u)
          /\ ~ room_busy(resv, _state[<<c, u>>].room, _state[<<c, u>>].start,
                         _state[<<c, u>>].end, now)
          /\ resp'.status = 200)
         => /\ Len(resv') = Len(resv) + 1
            /\ SubSeq(resv', 1, Len(resv)) = resv
            /\ resv'[Len(resv')].date = Today(now)
            /\ resv'[Len(resv')].roomId = _state[<<c, u>>].room
            /\ resv'[Len(resv')].start = _state[<<c, u>>].start
            /\ resv'[Len(resv')].end = _state[<<c, u>>].end
            /\ resv'[Len(resv')].reservedBy = u]_vars

\* a submit has just added a record to a file that held one already
C1_Witness ==
    /\ IsReplacement(resp)
    /\ Len(resv) >= 2
    /\ resv[Len(resv)].date = Today(now)

\* C2 (as claimed): the first successful submit against a freshly rendered
\* card returns a replacement card whose status section is exactly one row,
\* keyed "<roomName> <start>~<end>", holding the submitter's one mention.
C2_OneRowAfterFirstSubmit ==
    [][\A c \in Convs, u \in Users :
         (/\ SubmitBy(c, u)
          /\ card[c] = FreshCard
          /\ Complete(c, u)
          /\ IsReplacement(resp'))
         => StatusRows(resp'.body.attachments)
              = << [title |-> DisplayKey(_state[<<c, u>>].room, _state[<<c, u>>].start,
                                         _state[<<c, u>>].end),
                    value |-> Member(u), short |-> FALSE] >>]_vars

C4_MentionAtMostOnce ==
    \A c \in Convs :
        card[c] # NoCard =>
            \A u \in Users :
                \A i \in 1..Len(StatusRows(card[c].attachments)) :
                    Occurrences(Member(u), StatusRows(card[c].attachments)[i].value) <= 1

\* C5: a submit for a key whose selection lacks one of room, start, end, or
\* holds an empty value for it, is answered with the ephemeral "select all
\* three" message, replaceOriginal false, and the file is unchanged.
C5_IncompleteSubmit ==
    [][\A c \in Convs, u \in Users :
         (SubmitBy(c, u) /\ ~ Complete(c, u))
         => /\ IsEphemeral(resp', SelectAllText)
            /\ resv' = resv]_vars

\* the message was the answer while the file held a record and a key held
\* an empty room, and another key a room but no start
C5_Witness ==
    /\ IsEphemeral(resp, SelectAllText)
    /\ Len(resv) >= 1
    /\ \E k \in DOMAIN _state : "room" \in DOMAIN _state[k] /\ _state[k].room = <<>>
    /\ \E k \in DOMAIN _state :
         /\ "room" \in DOMAIN _state[k] /\ _state[k].room # <<>>
         /\ "start" \notin DOMAIN _state[k]

\* C6: a submit with a complete selection whose room has a reservation dated
\* today that shares an instant with the selected interval is answered with
\* the ephemeral conflict message, and the file is unchanged.
C6_ConflictSubmit ==
    [][\A c \in Convs, u \in Users :
         (/\ SubmitBy(c, u)
          /\ Complete(c, u)
          /\ \E i \in 1..Len(resv) :
               /\ resv[i].roomId = _state[<<c, u>>].room
               /\ resv[i].date = Today(now)
               /\ ShareInstant(_state[<<c, u>>].start, _state[<<c, u>>].end,
                               resv[i].start, resv[i].end))
         => /\ IsEphemeral(resp', BusyText)
            /\ resv' = resv]_vars

\* the conflict message was the answer while a key selected an interval
\* that overlaps, and is not, the reserved one
C6_Witness ==
    /\ IsEphemeral(resp, BusyText)
    /\ \E k \in DOMAIN _state :
         /\ \A f \in Fields : f \in DOMAIN _state[k] /\ _state[k][f] # <<>>
         /\ \E i \in 1..Len(resv) :
              /\ resv[i].roomId = _state[k].room
              /\ resv[i].date = Today(now)
              /\ resv[i].end # _state[k].end
              /\ ShareInstant(_state[k].start, _state[k].end,
                              resv[i].start, resv[i].end)

\* C7: a dropdown change of one field of a key sets that field to the value
\* and leaves the other two fields of the key as they were, set or not set;
\* hence after the three changes, in any order, the key holds all three.
C7_FieldUpdatesIndependent ==
    [][\A c \in Convs, u \in Users, name \in Fields :
         \A v \in Values(name) :
            meeting_actions(c, u, name, v)
            => /\ <<c, u>> \in DOMAIN _state'
               /\ name \in DOMAIN _state'[<<c, u>>]
               /\ _state'[<<c, u>>][name] = v
               /\ \A g \in Fields \ {name} :
                    IF g \in DOMAIN get_state(_state, c, u)
                    THEN /\ g \in DOMAIN _state'[<<c, u>>]
                         /\ _state'[<<c, u>>][g] = _state[<<c, u>>][g]
                    ELSE g \notin DOMAIN _state'[<<c, u>>]]_vars

\* both keys hold all three fields, set by dropdown changes in some order
C7_Witness ==
    /\ resp = Ok(EmptyDict)
    /\ \A c \in Convs, u \in Users :
         /\ <<c, u>> \in DOMAIN _state
         /\ DOMAIN _state[<<c, u>>] = Fields

\* C10 (as claimed): when the write of the file fails in a submit that
\* passed the completeness and the availability check, the answer is an
\* ephemeral message of the card schema whose text is neither the conflict
\* nor the "select all three" text.
C10_WriteFailureMessage ==
    [][\A c \in Convs, u \in Users :
         (/\ SubmitBy(c, u)
          /\ Complete(c, u)
          /\ ~ room_busy(resv, _state[<<c, u>>].room, _state[<<c, u>>].start,
                         _state[<<c, u>>].end, now)
          /\ resv' = resv)
         => /\ resp'.status = 200
            /\ "text" \in DOMAIN resp'.body
            /\ resp'.body.responseType = "ephemeral"
            /\ resp'.body.text \notin {BusyText, SelectAllText}]_vars

\* C14: a dropdown-change callback (room, start or end) is answered with
\* the empty acknowledgment, which carries no card and no replaceOriginal;
\* it leaves the reservation file and the shown card as they were, and it
\* neither adds, removes nor changes the entry of any key of the session
\* store other than the (conversation, user) key of the callback.
C14_DropdownFrame ==
    [][\A c \in Convs, u \in Users, name \in Fields :
         \A v \in Values(name) :
            meeting_actions(c, u, name, v)
            => /\ resp'.status = 200
               /\ DOMAIN resp'.body = {}
               /\ resv' = resv
               /\ card' = card
               /\ (DOMAIN _state') \ {<<c, u>>} = (DOMAIN _state) \ {<<c, u>>}
               /\ \A k \in (DOMAIN _state) \ {<<c, u>>} : _state'[k] = _state[k]]_vars

\* the acknowledgment was the answer while the file held a record of a user
\* who has since changed the end of the selection, and the other user's key
\* held a selection too
C14_Witness ==
    /\ resp.status = 200
    /\ DOMAIN resp.body = {}
    /\ \E c \in Convs, u \in Users, o \in Users :
         /\ o # u
         /\ Complete(c, u)
         /\ <<c, o>> \in DOMAIN _state
         /\ \E i \in 1..Len(resv) :
              resv[i].reservedBy = u /\ resv[i].end # _state[<<c, u>>].end

\* the places of the status sections in an attachment list
StatusPlaces(atts) == {i \in 1..Len(atts) : Get(atts[i], "title") = StatusTitle}

\* C18: a submit that passes the two checks and writes the file returns
\* replaceOriginal true with the text of the original message and an
\* attachment list of the same length in which every attachment that is not
\* a status section is the original's, at its place, and the status section
\* stands where the original's stood; the card shown after it, like every
\* card before it, has exactly one status section.
C18_SubmitKeepsAttachments ==
    [][\A c \in Convs, u \in Users :
         (/\ SubmitBy(c, u)
          /\ Complete(c, u)
          /\ ~ room_busy(resv, _state[<<c, u>>].room, _state[<<c, u>>].start,
                         _state[<<c, u>>].end, now)
          /\ resp'.status = 200)
         => /\ IsReplacement(resp')
            /\ resp'.body.text = card[c].text
            /\ Len(resp'.body.attachments) = Len(card[c].attachments)
            /\ \A i \in 1..Len(card[c].attachments) :
                  IF i \in StatusPlaces(card[c].attachments)
                  THEN /\ DOMAIN resp'.body.attachments[i] = {"title", "fields"}
                       /\ resp'.body.attachments[i].title = StatusTitle
                  ELSE resp'.body.attachments[i] = card[c].attachments[i]
            /\ Cardinality(StatusPlaces(card[c].attachments)) = 1
            /\ Cardinality(StatusPlaces(resp'.body.attachments)) = 1
            /\ card'[c] = Shown(resp'.body)]_vars

\* a replacement card was returned for a card that a submit had replaced
\* before: its status section, the last of four attachments, has a row for
\* each of two reservations
C18_Witness ==
    /\ IsReplacement(resp)
    /\ Len(resv) = 2
    /\ Len(resp.body.attachments) = 4
    /\ StatusPlaces(resp.body.attachments) = {4}
    /\ \E i \in 1..Len(resv) :
         RowValue(resp.body.attachments,
                  DisplayKey(resv[i].roomId, resv[i].start, resv[i].end)) # <<>>
    /\ Len(StatusRows(resp.body.attachments)) >= 3

\* C19: a submit leaves the session store as it was, whatever its outcome
\* (selection incomplete, room busy, record written, write failed), and no
\* step of the program removes a key from the store.
C19_SubmitReadsSession ==
    [][/\ \A c \in Convs, u \in Users : SubmitBy(c, u) => _state' = _state
       /\ (DOMAIN _state) \subseteq (DOMAIN _state')]_vars

\* the selection that a submit wrote to the file is still in the store,
\* next to the other user's, after the replacement card was returned
C19_Witness ==
    /\ IsReplacement(resp)
    /\ Len(resv) >= 1
    /\ \E c \in Convs, u \in Users :
         /\ Complete(c, u)
         /\ resv[Len(resv)].reservedBy = u
         /\ resv[Len(resv)].roomId = _state[<<c, u>>].room
         /\ resv[Len(resv)].start = _state[<<c, u>>].start
         /\ resv[Len(resv)].end = _state[<<c, u>>].end
         /\ Cardinality(DOMAIN _state) = 2

(***************************************************************************)
(* Claims about concurrent callbacks (SpecSel, SpecSub).                   *)
(***************************************************************************)
\* C8: when two concurrent dropdown-change callbacks for different fields of
\* one key have both finished, the key holds both values.
C8_NoLostFieldUpdate ==
    \A w1 \in Workers, w2 \in Workers :
        (/\ w1 # w2
         /\ pc[w1] = "done" /\ pc[w2] = "done"
         /\ loc[w1].op = "set" /\ loc[w2].op = "set"
         /\ loc[w1].c = loc[w2].c /\ loc[w1].u = loc[w2].u
         /\ loc[w1].name # loc[w2].name)
        => /\ <<loc[w1].c, loc[w1].u>> \in DOMAIN _state
           /\ loc[w1].name \in DOMAIN _state[<<loc[w1].c, loc[w1].u>>]
           /\ _state[<<loc[w1].c, loc[w1].u>>][loc[w1].name] = loc[w1].value

\* two callbacks of one round set different fields of a key that had no
\* entry when the first of them read the store
C8_Witness ==
    \E w1 \in Workers, w2 \in Workers :
        /\ w1 # w2
        /\ pc[w1] = "done" /\ pc[w2] = "done"
        /\ loc[w1].op = "set" /\ loc[w2].op = "set"
        /\ loc[w1].c = loc[w2].c /\ loc[w1].u = loc[w2].u
        /\ loc[w1].name # loc[w2].name
        /\ loc[w1].fresh

\* C9 (as claimed): the record of every submit of the round that was
\* answered with the replacement card is in the file.
C9_NoLostAppend ==
    \A w \in Workers :
        (pc[w] = "done" /\ loc[w].op = "submit" /\ loc[w].outcome = "saved")
        => \E i \in 1..Len(resv) : resv[i] = loc[w].rs[Len(loc[w].rs)]

(***************************************************************************)
(* Claims about functions applied on their own.                            *)
(***************************************************************************)
\* C11 (as claimed): decoding a card whose status section encodes a
\* non-empty mapping of display keys to non-empty lists of mentions gives
\* the mapping back: the same keys in the same order, each with the same
\* list of mentions.
C11_RoundTrip ==
    ret.fn = "decode" => ret.status = arg.m

\* the reservations of this room dated today
TodayOf(room_id) ==
    {i \in 1..Len(resv) : resv[i].roomId = room_id /\ resv[i].date = Today(now)}

\* C12 (as claimed): for every room, every well-formed interval of the slot
\* grid and every reservation file, room_busy is true exactly when some
\* reservation of the room dated today shares an instant with the interval,
\* the intervals being half-open.
C12_BusyIffShared ==
    ret.fn = "room_busy"
    => (ret.busy <=> \E i \in TodayOf(arg.room_id) :
                        ShareInstant(arg.start, arg.end, resv[i].start, resv[i].end))

\* C12 (amended): the same, for every reservation file in which the
\* reservations of the room dated today have their start before their end.
C12_BusyIffSharedWellFormed ==
    (/\ ret.fn = "room_busy"
     /\ \A i \in TodayOf(arg.room_id) : Minutes(resv[i].start) < Minutes(resv[i].end))
    => (ret.busy <=> \E i \in TodayOf(arg.room_id) :
                        ShareInstant(arg.start, arg.end, resv[i].start, resv[i].end))

\* the room is found busy because of the second of two reservations of it
\* dated today, the first one only touching the interval asked for
C12_Witness ==
    /\ ret.fn = "room_busy"
    /\ ret.busy
    /\ Len(resv) = 2
    /\ TodayOf(arg.room_id) = {1, 2}
    /\ resv[1].end = arg.start
    /\ Minutes(resv[2].start) < Minutes(resv[2].end)
    /\ <<resv[2].start, resv[2].end>> # <<arg.start, arg.end>>

\* the room is found free although the file holds a reservation of the
\* same interval for another room and one of the room for another date
C12_WitnessFree ==
    /\ ret.fn = "room_busy"
    /\ ~ ret.busy
    /\ Len(resv) = 2
    /\ resv[1].roomId # arg.room_id /\ resv[1].date = Today(now)
    /\ resv[1].start = arg.start /\ resv[1].end = arg.end
    /\ resv[2].roomId = arg.room_id /\ resv[2].date # Today(now)
    /\ resv[2].start = arg.start /\ resv[2].end = arg.end

\* C13 (as claimed): for every text in which the time range is found with
\* hours 0-23 and minutes 0-59 and the parsed end is not after the parsed
\* start, the end of the result is one hour after the start of the result.
C13_EndOneHourAfterStart ==
    ret.fn = "parse_natural"
    => LET m == TimeRangeSearch(RemoveBlanks(Strip(arg.text)))
       IN (/\ m.matched
           /\ m.s_h <= 23 /\ m.s_m <= 59 /\ m.e_h <= 23 /\ m.e_m <= 59
           /\ m.e_h * 60 + m.e_m <= m.s_h * 60 + m.s_m)
          => /\ ret.out # ValueError
             /\ Minutes(ret.out.end) = (Minutes(ret.out.start) + 60) % 1440

(***************************************************************************)
(* Claims about the command and the card it renders (SpecCmd).             *)
(***************************************************************************)
\* the room with this id is in the directory
IsRoom(room_id) == \E i \in 1..Len(load_rooms) : load_rooms[i].id = room_id

\* C15 (as claimed): for the command text "3cheung 9~11 hoeuisil" the
\* extractor yields floor 3, start 09:00, end 11:00 and a non-empty room
\* hint, and every option of the room selector of the card returned is a
\* room of the directory on floor 3.
C15_ScenarioA ==
    [][\A c \in Convs :
         meeting_command(c, ScenarioA)
         => /\ parse_natural(ScenarioA).floor = <<3>>
            /\ parse_natural(ScenarioA).start = T0900
            /\ parse_natural(ScenarioA).end = T1100
            /\ ~ Falsy(parse_natural(ScenarioA).room_hint)
            /\ resp'.status = 200
            /\ LET opts == SelectorOptions(resp'.body, "room")
               IN \A i \in 1..Len(opts) :
                     \E j \in 1..Len(load_rooms) :
                        load_rooms[j].id = opts[i].value /\ load_rooms[j].floor = 3]_vars

\* C16 (as claimed): the roomId of every record of the reservation file is
\* the id of a room of the directory, whatever values the dropdown changes
\* carried, the value of the "no rooms" option included.
C16_RoomIdInDirectory ==
    \A i \in 1..Len(resv) : IsRoom(resv[i].roomId)

(***************************************************************************)
(* Claims about the records of the file.                                   *)
(***************************************************************************)
\* C17 (as claimed): no two records of the reservation file have the same
\* id, also when one user makes two successful submits, for different rooms
\* or for intervals that do not overlap, within one second of the clock.
C17_UniqueIds ==
    \A i \in 1..Len(resv), j \in 1..Len(resv) : i # j => resv[i].id # resv[j].id

\* C20 (as claimed): no two records of the reservation file with the same
\* roomId and the same date have intervals that share an instant, however
\* the steps of concurrent submit callbacks interleave.
C20_NoDoubleBooking ==
    \A i \in 1..Len(resv), j \in 1..Len(resv) :
        (i # j /\ resv[i].roomId = resv[j].roomId /\ resv[i].date = resv[j].date)
        => ~ ShareInstant(resv[i].start, resv[i].end, resv[j].start, resv[j].end)

====
